---- MODULE Spec2Model ----
(***************************************************************************)
(* Wikilink graph of the notebook canvas:                                  *)
(*   parseWikilinks -> resolveWikilink -> buildConnectionMap               *)
(*     (src/renderer/src/lib/wikilinks.ts),                                *)
(*   the backlinks and the poll effect of NotebookSidebar,                 *)
(*   the connection overlay (ConnectionLines), the graph data and the      *)
(*   simulation effect of GraphView, the notebooks created and edited on   *)
(*   the canvas, the wikilink autocomplete and the renderer's wikilink     *)
(*   rule (markdown.ts).                                                   *)
(*                                                                         *)
(* A JavaScript string is a sequence of one-character strings; offsets     *)
(* into a string are 0-based as in the source, so the character at offset  *)
(* k of s is s[k+1].                                                       *)
(***************************************************************************)
EXTENDS Integers, Sequences, FiniteSets, TLC

VARIABLES
    text,         \* argument of parseWikilinks
    results,      \* value returned by parseWikilinks
    target,       \* first argument of resolveWikilink
    candidates,   \* second argument of resolveWikilink (NotebookInfo[])
    resolved,     \* value returned by resolveWikilink
    notebooks,    \* argument of buildConnectionMap
    connections,  \* value returned by buildConnectionMap
    threw,        \* TRUE iff the call ended in a TypeError instead of returning
    called,       \* the function that has been called, "none" before the call
    calls,        \* the calls of parseWikilinks made so far: <<text, results>>
    selectedId,   \* shape id of the selected notebook, Null if there is none
    backlinks,    \* the notebooks listed as linking to the selected one
    shapes,       \* the notebook shapes of the canvas page, in page order
    selection,    \* ids of the shapes selected on the canvas
    editor,       \* TRUE iff editorRef.current holds the editor
    created,      \* number of notebooks created on the canvas so far
    mounted,      \* TRUE iff the sidebar is mounted
    intervals,    \* handles of the intervals that are set and not cleared
    interval,     \* handle held by the cleanup of the sidebar's poll effect
    graphMounted, \* TRUE iff the graph view is mounted
    instance,     \* number of the latest run of the graph view's effect
    simulations,  \* the effect runs whose simulation is not stopped
    listeners,    \* the effect runs whose mouse listeners are on the canvas
    timeouts,     \* the effect runs whose delayed draw is pending
    drawing,      \* the effect run whose draw() ran in the last step, 0 if none
    hovered,      \* hoveredRef.current
    collide,      \* the radius the collision force of the latest simulation uses per node
    pointer,      \* the mouse event handled in the last step and what getNodeAt returned
    callbacks,    \* the ids onSelectNotebook was called with in the last step, in order
    overlay,      \* what ConnectionLines rendered: an svg or nothing, and its lines
    graph,        \* { nodes, links } of GraphView's memo
    offered,      \* the completion option picked and the shape it was made from
    anchors       \* the wikilink anchors renderMarkdown made, once it has rendered

\* the canvas and the sidebar's poll effect
uiVars == <<shapes, selection, editor, created, mounted, intervals, interval>>

\* the graph view's simulation effect
graphVars == <<graphMounted, instance, simulations, listeners, timeouts, drawing, hovered,
               collide, pointer, callbacks>>

\* what the other views hold
\* the editor's autocomplete and the rendered markdown
editVars == <<offered, anchors>>

viewVars == <<overlay, graph, editVars>>

vars == <<text, results, target, candidates, resolved, notebooks, connections,
          threw, called, calls, selectedId, backlinks, uiVars, graphVars, viewVars>>

----------------------------------------------------------------------------
(* Bounds of the explored inputs *)

\* number of pieces a text handed to parseWikilinks is made of
MaxSegs == 5
\* number of candidates handed to resolveWikilink
MaxCandidates == 3
\* number of notebooks handed to buildConnectionMap
MaxNotebooks == 2

\* number of calls of parseWikilinks made one after the other
MaxCalls == 3

----------------------------------------------------------------------------
(* JavaScript values and string primitives *)

\* the value undefined (and the null of RegExp.prototype.exec)
Undefined == [undefined |-> TRUE]

\* the null of a selected shape id; the shapes have the ids 1, 2, ...
Null == 0

Min(S) == CHOOSE x \in S : \A y \in S : x <= y
Max(S) == CHOOSE x \in S : \A y \in S : x >= y

\* s.slice(from, to) for 0 <= from, with 0-based offsets and exclusive end
Slice(s, from, to) == SubSeq(s, from + 1, to)

\* the character at 0-based offset k, "" past either end (s.charAt(k))
CharAt(s, k) == IF k >= 0 /\ k < Len(s) THEN s[k + 1] ELSE ""

UpperLetters == <<"A", "B", "C", "D", "E", "F", "G", "H", "I", "J", "K", "L", "M",
                  "N", "O", "P", "Q", "R", "S", "T", "U", "V", "W", "X", "Y", "Z">>
LowerLetters == <<"a", "b", "c", "d", "e", "f", "g", "h", "i", "j", "k", "l", "m",
                  "n", "o", "p", "q", "r", "s", "t", "u", "v", "w", "x", "y", "z">>

\* String.prototype.toLowerCase on one character
toLowerCaseChar(c) ==
    IF \E k \in 1..Len(UpperLetters) : UpperLetters[k] = c
    THEN LowerLetters[CHOOSE k \in 1..Len(UpperLetters) : UpperLetters[k] = c]
    ELSE c

\* String.prototype.toLowerCase
toLowerCase(s) == [i \in 1..Len(s) |-> toLowerCaseChar(s[i])]

\* the white space String.prototype.trim removes
IsWhiteSpace(c) == c \in {" ", "\t", "\n", "\r"}

\* nothing removed
trim_keepAll(s) == s

\* String.prototype.trim
trim(s) ==
    LET keep == {i \in 1..Len(s) : ~IsWhiteSpace(s[i])}
    IN  IF keep = {} THEN <<>> ELSE SubSeq(s, Min(keep), Max(keep))

\* String.prototype.split with a one-character separator
RECURSIVE split(_, _)
split(s, sep) ==
    LET at == {i \in 1..Len(s) : s[i] = sep}
    IN  IF at = {} THEN <<s>>
        ELSE <<SubSeq(s, 1, Min(at) - 1)>> \o split(SubSeq(s, Min(at) + 1, Len(s)), sep)

----------------------------------------------------------------------------
(* parseWikilinks *)

\* the lengths n >= 1 for which [^\]]+ can take n characters at offset
\* i + 2 and be followed by \]\]
ContentLengths(s, i) ==
    {n \in 1..Len(s) :
        /\ \A k \in 0..(n - 1) : CharAt(s, i + 2 + k) \notin {"]", ""}
        /\ CharAt(s, i + 2 + n) = "]"
        /\ CharAt(s, i + 2 + n + 1) = "]"}

\* /\[\[([^\]]+)\]\]/ matches at offset i
MatchesAt(s, i) ==
    /\ CharAt(s, i) = "["
    /\ CharAt(s, i + 1) = "["
    /\ ContentLengths(s, i) # {}

\* regex.exec(text) of the global regex with regex.lastIndex = lastIndex:
\* the leftmost match at or after lastIndex, the quantifier being greedy
regexExec(s, lastIndex) ==
    LET at == {i \in lastIndex..(Len(s) - 1) : MatchesAt(s, i)}
    IN  IF at = {} THEN Undefined
        ELSE LET i == Min(at)
                 n == Max(ContentLengths(s, i))
             IN  [index |-> i,
                  whole |-> Slice(s, i, i + n + 4),
                  group1 |-> Slice(s, i + 2, i + 2 + n)]

\* parts[0].trim()
matchTarget(parts) == trim(parts[1])

\* (parts[1] || parts[0]).trim(): parts[1] is falsy when it is missing or ""
matchLabel(parts) ==
    trim(IF Len(parts) >= 2 /\ parts[2] # <<>> THEN parts[2] ELSE parts[1])

\* end taken from the length of the content instead of the whole match
wikilinkMatch_endFromContent(match) ==
    LET content == match.group1
        parts == split(content, "|")
    IN  [target |-> matchTarget(parts),
         label |-> matchLabel(parts),
         start |-> match.index,
         end |-> match.index + Len(match.group1)]

\* the body of the while loop: the WikilinkMatch pushed for one regex match
wikilinkMatch(match) ==
    LET content == match.group1
        parts == split(content, "|")
    IN  [target |-> matchTarget(parts),
         label |-> matchLabel(parts),
         start |-> match.index,
         end |-> match.index + Len(match.whole)]

\* the while loop, entered with regex.lastIndex = lastIndex
RECURSIVE parseLoop(_, _)
parseLoop(s, lastIndex) ==
    LET match == regexExec(s, lastIndex)
    IN  IF match = Undefined THEN <<>>
        ELSE <<wikilinkMatch(match)>> \o parseLoop(s, match.index + Len(match.whole))

\* the results array kept between calls instead of created by each call
parseWikilinks_sharedResults(s) == results \o parseLoop(s, 0)

parseWikilinks(s) == parseLoop(s, 0)

----------------------------------------------------------------------------
(* resolveWikilink *)

\* Array.prototype.find: the first element for which the callback is true,
\* undefined if there is none; test[i] is the callback's value on arr[i]
find(arr, test) ==
    LET at == {i \in 1..Len(arr) : test[i]}
    IN  IF at = {} THEN Undefined ELSE arr[Min(at)]

\* n.title.toLowerCase() === lowerTarget
titleMatches_caseSensitive(n, lowerTarget) == n.title = lowerTarget
titleMatches(n, lowerTarget) == toLowerCase(n.title) = lowerTarget

\* the title tried before the id
resolveWikilink_titleFirst(tgt, infos) ==
    LET byId == find(infos, [i \in 1..Len(infos) |-> infos[i].notebookId = tgt])
        lowerTarget == toLowerCase(tgt)
        byTitle == find(infos, [i \in 1..Len(infos) |-> titleMatches(infos[i], lowerTarget)])
    IN  IF byTitle # Undefined THEN byTitle
        ELSE IF byId # Undefined THEN byId
        ELSE Undefined

\* the id tried and the title not
resolveWikilink_idOnly(tgt, infos) ==
    find(infos, [i \in 1..Len(infos) |-> infos[i].notebookId = tgt])

\* the first candidate returned when nothing matches
resolveWikilink_fallbackFirst(tgt, infos) ==
    LET byId == find(infos, [i \in 1..Len(infos) |-> infos[i].notebookId = tgt])
        lowerTarget == toLowerCase(tgt)
        byTitle == find(infos, [i \in 1..Len(infos) |-> titleMatches(infos[i], lowerTarget)])
    IN  IF byId # Undefined THEN byId
        ELSE IF byTitle # Undefined THEN byTitle
        ELSE IF infos # <<>> THEN infos[1]
        ELSE Undefined

resolveWikilink(tgt, infos) ==
    LET byId == find(infos, [i \in 1..Len(infos) |-> infos[i].notebookId = tgt])
        lowerTarget == toLowerCase(tgt)
        byTitle == find(infos, [i \in 1..Len(infos) |-> titleMatches(infos[i], lowerTarget)])
    IN  IF byId # Undefined THEN byId
        ELSE IF byTitle # Undefined THEN byTitle
        ELSE Undefined

----------------------------------------------------------------------------
(* buildConnectionMap *)

\* notebooks.map((n) => ({ shapeId, notebookId, title }))
infoListOf(nbs) ==
    [i \in 1..Len(nbs) |-> [shapeId |-> nbs[i].shapeId,
                            notebookId |-> nbs[i].notebookId,
                            title |-> nbs[i].title]]

\* the self-link test left out
linkOutcome_noSelfCheck(notebook, res) ==
    IF res = Undefined THEN "skip" ELSE "push"

\* `resolved &&` left out
linkOutcome_noUndefinedGuard(notebook, res) ==
    IF res = Undefined THEN "throw"
    ELSE IF res.shapeId # notebook.shapeId THEN "push"
    ELSE "skip"

\* the self-link test made on notebookId instead of shapeId
linkOutcome_compareNotebookId(notebook, res) ==
    IF res = Undefined THEN "skip"
    ELSE IF res.notebookId # notebook.notebookId THEN "push"
    ELSE "skip"

\* what the body of the inner loop does with one link: "push" a connection or
\* "skip" the link.  Reading resolved.shapeId of undefined would be a
\* TypeError ("throw"); `resolved &&` keeps the read from being evaluated.
linkOutcome(notebook, res) ==
    IF res = Undefined THEN "skip"
    ELSE IF res.shapeId # notebook.shapeId THEN "push"
    ELSE "skip"

\* the source notebook taken out of the candidates before resolving
linkOutcomes_excludeSelf(notebook, infos) ==
    LET links == parseWikilinks(notebook.markdown)
        others == SelectSeq(infos, LAMBDA n : n.shapeId # notebook.shapeId)
    IN  [k \in 1..Len(links) |->
            LET res == resolveWikilink(links[k].target, others)
            IN  [outcome |-> linkOutcome(notebook, res), resolved |-> res]]

\* the outcomes of the inner loop over the links of one notebook, in order
linkOutcomes(notebook, infos) ==
    LET links == parseWikilinks(notebook.markdown)
    IN  [k \in 1..Len(links) |->
            LET res == resolveWikilink(links[k].target, infos)
            IN  [outcome |-> linkOutcome(notebook, res), resolved |-> res]]

\* the connections the inner loop pushes for one notebook, in order
RECURSIVE pushed(_, _)
pushed(notebook, outs) ==
    IF outs = <<>> THEN <<>>
    ELSE (IF Head(outs).outcome = "push"
          THEN << <<notebook.shapeId, Head(outs).resolved.shapeId>> >>
          ELSE <<>>) \o pushed(notebook, Tail(outs))

\* the outer loop over notebooks[from..]
RECURSIVE outerLoop(_, _, _)
outerLoop(nbs, from, infos) ==
    IF from > Len(nbs) THEN <<>>
    ELSE pushed(nbs[from], linkOutcomes(nbs[from], infos))
            \o outerLoop(nbs, from + 1, infos)

buildConnectionMap(nbs) == outerLoop(nbs, 1, infoListOf(nbs))

\* the call ends in a TypeError instead of returning
buildConnectionMapThrows(nbs) ==
    \E i \in 1..Len(nbs) :
        LET outs == linkOutcomes(nbs[i], infoListOf(nbs))
        IN  \E k \in 1..Len(outs) : outs[k].outcome = "throw"

----------------------------------------------------------------------------
(* The backlinks of the selected notebook (NotebookSidebar, NotebookList) *)

\* the selected notebook is left out of its own backlinks
linksToSelected_selfIncluded(n, infos, sel) ==
    LET links == parseWikilinks(n.markdown)
    IN  \E k \in 1..Len(links) :
            LET res == resolveWikilink(links[k].target, infos)
            IN  res # Undefined /\ res.shapeId = sel

\* the filter callback: n is not the selected notebook and some link of n
\* resolves to it.  resolveWikilink(...)?.shapeId is undefined for a target
\* that does not resolve, which is never === a selected id
linksToSelected(n, infos, sel) ==
    IF n.shapeId = sel THEN FALSE
    ELSE LET links == parseWikilinks(n.markdown)
         IN  \E k \in 1..Len(links) :
                 LET res == resolveWikilink(links[k].target, infos)
                 IN  res # Undefined /\ res.shapeId = sel

\* the selected notebook not looked up before the filter, and the ids
\* compared through optional chaining on both sides
backlinksOf_noSelectedGuard(nbs, sel) ==
    IF sel = Null THEN <<>>
    ELSE LET selected == find(nbs, [i \in 1..Len(nbs) |-> nbs[i].shapeId = sel])
             selectedShapeId == IF selected = Undefined THEN Null ELSE selected.shapeId
         IN  SelectSeq(nbs,
                 LAMBDA n :
                     /\ n.shapeId # sel
                     /\ \E k \in 1..Len(parseWikilinks(n.markdown)) :
                         LET res == resolveWikilink(parseWikilinks(n.markdown)[k].target,
                                                    infoListOf(nbs))
                         IN  (IF res = Undefined THEN Null ELSE res.shapeId)
                                 = selectedShapeId)

\* the useMemo callback computing the backlinks
backlinksOf(nbs, sel) ==
    IF sel = Null THEN <<>>
    ELSE LET selected == find(nbs, [i \in 1..Len(nbs) |-> nbs[i].shapeId = sel])
         IN  IF selected = Undefined THEN <<>>
             ELSE SelectSeq(nbs, LAMBDA n : linksToSelected(n, infoListOf(nbs), sel))

----------------------------------------------------------------------------
(* The connection overlay (ConnectionLines) *)

\* the notebooks found for the two ends of a link
lineEnds(link, nbs) ==
    [source |-> find(nbs, [i \in 1..Len(nbs) |-> nbs[i].shapeId = link[1]]),
     target |-> find(nbs, [i \in 1..Len(nbs) |-> nbs[i].shapeId = link[2]])]

\* the links the overlay draws a line for: a link with an end that is not
\* found maps to null and is filtered out
linesDrawn(nbs) ==
    SelectSeq(buildConnectionMap(nbs),
              LAMBDA link : /\ lineEnds(link, nbs).source # Undefined
                            /\ lineEnds(link, nbs).target # Undefined)

\* the line from the top left corner of the source to that of the target
lineOf_corners(link, nbs) ==
    LET src == lineEnds(link, nbs).source
        dest == lineEnds(link, nbs).target
    IN  [sx |-> src.x, sy |-> src.y, tx |-> dest.x, ty |-> dest.y,
         sourceId |-> link[1], targetId |-> link[2]]

\* the line of a link whose two ends are found: from the centre of the source
\* to the centre of the target (sizes are even, so w / 2 is w \div 2)
lineOf(link, nbs) ==
    LET src == lineEnds(link, nbs).source
        dest == lineEnds(link, nbs).target
    IN  [sx |-> src.x + src.w \div 2, sy |-> src.y + src.h \div 2,
         tx |-> dest.x + dest.w \div 2, ty |-> dest.y + dest.h \div 2,
         sourceId |-> link[1], targetId |-> link[2]]

\* the connections memo of the overlay
overlayConnections(nbs) ==
    [k \in 1..Len(linesDrawn(nbs)) |-> lineOf(linesDrawn(nbs)[k], nbs)]

\* what ConnectionLines returns: null when there is no connection, else an
\* svg with one <line> per connection
ConnectionLines(nbs) ==
    LET conns == overlayConnections(nbs)
    IN  IF Len(conns) = 0 THEN [svg |-> FALSE, lines |-> <<>>]
        ELSE [svg |-> TRUE,
              lines |-> [k \in 1..Len(conns) |->
                            [x1 |-> conns[k].sx, y1 |-> conns[k].sy,
                             x2 |-> conns[k].tx, y2 |-> conns[k].ty]]]

----------------------------------------------------------------------------
(* The graph data of the graph view (GraphView, useMemo) *)

\* notebooks.map((n) => ({ id: n.shapeId, notebookId, title, linkCount }))
graphNodes(nbs) ==
    [i \in 1..Len(nbs) |-> [id |-> nbs[i].shapeId,
                            notebookId |-> nbs[i].notebookId,
                            title |-> nbs[i].title,
                            linkCount |-> Len(parseWikilinks(nbs[i].markdown))]]

\* the self-link test left out
linksPushed_noSelfCheck(notebook, wikilinks, infoList) ==
    LET RECURSIVE loop(_)
        loop(k) ==
            IF k > Len(wikilinks) THEN <<>>
            ELSE LET res == resolveWikilink(wikilinks[k].target, infoList)
                 IN  (IF res # Undefined
                      THEN <<[source |-> notebook.shapeId, target |-> res.shapeId]>>
                      ELSE <<>>) \o loop(k + 1)
    IN  loop(1)

\* the inner loop of the memo: the links pushed for the wikilinks of one
\* notebook, in order
linksPushed(notebook, wikilinks, infoList) ==
    LET RECURSIVE loop(_)
        loop(k) ==
            IF k > Len(wikilinks) THEN <<>>
            ELSE LET res == resolveWikilink(wikilinks[k].target, infoList)
                 IN  (IF res # Undefined /\ res.shapeId # notebook.shapeId
                      THEN <<[source |-> notebook.shapeId, target |-> res.shapeId]>>
                      ELSE <<>>) \o loop(k + 1)
    IN  loop(1)

\* the outer loop of the memo over notebooks[from..]
RECURSIVE graphLinks(_, _, _)
graphLinks(nbs, from, infoList) ==
    IF from > Len(nbs) THEN <<>>
    ELSE linksPushed(nbs[from], parseWikilinks(nbs[from].markdown), infoList)
            \o graphLinks(nbs, from + 1, infoList)

\* what the memo returns
graphData(nbs) ==
    [nodes |-> graphNodes(nbs), links |-> graphLinks(nbs, 1, infoListOf(nbs))]

----------------------------------------------------------------------------
(* The wikilink autocomplete of the notebook editor (wikilinkCompletionSource) *)

\* nothing picked
NoOption == [option |-> Undefined, shapeId |-> Null]

\* String.prototype.includes
includes(s, q) == \E i \in 0..(Len(s) - Len(q)) : SubSeq(s, i + 1, i + Len(q)) = q

\* the callback of the filter of getNotebooks: notebook shapes other than
\* the one being edited
isOtherNotebook(s, self) == s.id # self

\* getNotebooks of the notebook being edited
getNotebooks(shs, self) ==
    LET others == SelectSeq(shs, LAMBDA s : isOtherNotebook(s, self))
    IN  [i \in 1..Len(others) |-> [notebookId |-> others[i].notebookId,
                                    title |-> others[i].title]]

\* the callback of the filter of the options
matchesQuery(n, query) ==
    \/ query = <<>>
    \/ includes(toLowerCase(n.title), query)
    \/ includes(toLowerCase(n.notebookId), query)

\* `[[${n.notebookId}|${n.title}]]`
applyText(n) == <<"[", "[">> \o n.notebookId \o <<"|">> \o n.title \o <<"]", "]">>

\* the options offered for what stands after [[
completionOptions(query, nbs) ==
    LET matching == SelectSeq(nbs, LAMBDA n : matchesQuery(n, query))
    IN  [i \in 1..Len(matching) |-> [label |-> matching[i].title,
                                      detail |-> matching[i].notebookId,
                                      apply |-> applyText(matching[i])]]

\* the shapes the options were made from, in the order of the options
optionShapes(query, shs, self) ==
    SelectSeq(shs, LAMBDA s : isOtherNotebook(s, self) /\ matchesQuery(s, query))

----------------------------------------------------------------------------
(* The wikilink rule of the markdown renderer (markdown.ts) *)

\* nothing rendered yet
NotRendered == [rendered |-> FALSE, links |-> <<>>]

\* src.indexOf(']]', from), -1 if there is none
indexOfCloser(src, from) ==
    LET at == {k \in from..(Len(src) - 2) : CharAt(src, k) = "]" /\ CharAt(src, k + 1) = "]"}
    IN  IF at = {} THEN -1 ELSE Min(at)

\* the rule called at pos: false, or the token it pushes and the pos it
\* leaves
wikilinkRule(src, pos) ==
    IF CharAt(src, pos) # "[" \/ CharAt(src, pos + 1) # "["
    THEN [matched |-> FALSE]
    ELSE LET closePos == indexOfCloser(src, pos + 2)
         IN  IF closePos = -1 THEN [matched |-> FALSE]
             ELSE LET content == Slice(src, pos + 2, closePos)
                      parts == split(content, "|")
                  IN  [matched |-> TRUE,
                       target |-> trim(parts[1]),
                       label |-> trim(IF Len(parts) >= 2 /\ parts[2] # <<>>
                                      THEN parts[2] ELSE parts[1]),
                       pos |-> closePos + 2]

\* the inline tokenizer going over src from pos: where the rule matches, its
\* token is pushed and the scan goes on from the pos it left; elsewhere the
\* character is taken as text
RECURSIVE tokenize(_, _)
tokenize(src, pos) ==
    IF pos >= Len(src) THEN <<>>
    ELSE LET r == wikilinkRule(src, pos)
         IN  IF r.matched
             THEN <<[target |-> r.target, label |-> r.label]>> \o tokenize(src, r.pos)
             ELSE tokenize(src, pos + 1)

\* renderMarkdown: the anchors <a class="wikilink" data-target=target>label</a>
\* of the html, in order
renderMarkdown(src) == [rendered |-> TRUE, links |-> tokenize(src, 0)]

----------------------------------------------------------------------------
(* The canvas: notebook shapes created, edited, deleted and selected *)

\* number of notebooks created on the canvas
MaxShapes == 2

\* the id of a shape that is not a notebook (an arrow, a comment)
OtherShape == -1

DefaultTitle == <<"U", "n", "t", "i", "t", "l", "e", "d">>
DefaultMarkdown == <<"#", " ", "U", "n", "t", "i", "t", "l", "e", "d", "\n", "\n", "S", "t", "a", "r", "t", " ", "w", "r", "i", "t", "i", "n", "g", ".", ".", ".">>

\* `note-${Date.now()}` of the n-th notebook, creations being at least a
\* millisecond apart
Digits == <<"1", "2", "3", "4", "5", "6", "7", "8", "9">>
noteId(n) == <<"n", "o", "t", "e", "-", Digits[n]>>

\* the offset at which the line holding offset k ends
EndOfLine(md, k) == Min({e \in k..Len(md) : e = Len(md) \/ CharAt(md, e) = "\n"})

\* where (.+) can start for a # at offset i: after at least one white space
\* character and nothing else, on a character that . matches
HeadingGroups(md, i) ==
    {k \in (i + 2)..(Len(md) - 1) :
        /\ \A j \in (i + 1)..(k - 1) : IsWhiteSpace(CharAt(md, j))
        /\ CharAt(md, k) # "\n"}

\* the offsets at which /^#\s+(.+)$/m matches
HeadingStarts(md) ==
    {i \in 0..(Len(md) - 1) :
        /\ i = 0 \/ CharAt(md, i - 1) = "\n"
        /\ CharAt(md, i) = "#"
        /\ HeadingGroups(md, i) # {}}

\* the title of a markdown text: its first heading, trimmed
extractTitle(md) ==
    IF HeadingStarts(md) = {} THEN DefaultTitle
    ELSE LET k == Max(HeadingGroups(md, Min(HeadingStarts(md))))
         IN  trim(Slice(md, k, EndOfLine(md, k)))

\* the texts typed into a notebook
EditTexts == {<<"#", " ", "B", "\n", "[", "[", "n", "o", "t", "e", "-", "1", "]", "]">>,
              <<"[", "[", "b", "]", "]", " ", "[", "[", "u", "n", "t", "i", "t", "l", "e", "d", "]", "]">>}

\* the shape addNotebook creates
newNotebook(n) ==
    [id |-> n, notebookId |-> noteId(n), title |-> DefaultTitle, markdown |-> DefaultMarkdown]

\* the shape the notebook tool creates: BaseBoxShapeTool takes the props of
\* getDefaultProps
toolNotebook(n) ==
    [id |-> n, notebookId |-> <<>>, title |-> DefaultTitle, markdown |-> DefaultMarkdown]

\* texts typed while a heading is being written: the # alone on its line, the
\* heading with its text
TypedTexts ==
    EditTexts \cup {<<"#", "\n", "f", "o", "o">>, <<"#", " ", "T", " ", "\n", "#", " ", "U">>}

\* the notebookId written again at every edit, from the new title
changed_renamesId(shape, value) ==
    [shape EXCEPT !.markdown = value, !.title = extractTitle(value),
                  !.notebookId = toLowerCase(extractTitle(value))]

\* editor.updateShape of handleChange: the markdown and the title
changed(shape, value) ==
    [shape EXCEPT !.markdown = value, !.title = extractTitle(value)]

----------------------------------------------------------------------------
(* The sidebar's poll effect (NotebookSidebar) *)

\* setInterval: a handle that is not live is made live
newHandle(live) == Min({h \in 1..(Cardinality(live) + 1) : h \notin live})

\* the interval left running by the cleanup
clearInterval_leaked(live, h) == live

clearInterval(live, h) == live \ {h}

\* earlier entries kept for the shapes that are no longer on the page
listed_merged(prev, shs) ==
    SelectSeq(prev, LAMBDA n : \A i \in 1..Len(shs) : shs[i].id # n.shapeId)
    \o [i \in 1..Len(shs) |->
            [shapeId |-> shs[i].id, notebookId |-> shs[i].notebookId,
             title |-> shs[i].title, markdown |-> shs[i].markdown,
             linkCount |-> Len(parseWikilinks(shs[i].markdown))]]

\* the list refresh hands to setNotebooks; prev is the list in state
listed(prev, shs) ==
    [i \in 1..Len(shs) |->
        [shapeId |-> shs[i].id, notebookId |-> shs[i].notebookId,
         title |-> shs[i].title, markdown |-> shs[i].markdown,
         linkCount |-> Len(parseWikilinks(shs[i].markdown))]]

\* the earlier id kept unless exactly one notebook is selected
selected_kept(prev, sel, shs) ==
    IF Cardinality(sel) = 1 /\ (\E i \in 1..Len(shs) : shs[i].id \in sel)
    THEN CHOOSE id \in sel : TRUE
    ELSE prev

\* the id refresh hands to setSelectedId; prev is the id in state
selected(prev, sel, shs) ==
    IF Cardinality(sel) = 1 /\ (\E i \in 1..Len(shs) : shs[i].id \in sel)
    THEN CHOOSE id \in sel : TRUE
    ELSE Null

----------------------------------------------------------------------------
(* The graph view's simulation effect (GraphView) *)

\* number of runs of the effect
MaxInstances == 3

\* simulation.stop() in the cleanup of run i
stopped(sims, i) == sims \ {i}

\* canvas.removeEventListener of the two handlers of run i
removed(ls, i) == ls \ {i}

\* the cleanup of run i leaves the timeouts alone: the handle setTimeout
\* returns is not kept, and cancelAnimationFrame is given animFrameRef, which
\* nothing sets
afterCleanup(ts, i) == ts

\* forceCollide(25)
CollideRadius == 25

\* the radius the collision force gives a node: the same for every node
collideRadius(node) == CollideRadius

\* the collision radii of forceSimulation(simNodes), node by node
collideRadii(nodes) == [k \in 1..Len(nodes) |-> collideRadius(nodes[k])]

\* const radius = 6 + Math.min(node.linkCount * 2, 10) of draw and getNodeAt
markerRadius(node) == 6 + Min({node.linkCount * 2, 10})

\* no mouse event handled
NoEvent == [event |-> "none", hit |-> Null]

\* the callback made whether a node is hit or not
handleClick_unguarded(node) == <<node>>

\* handleClick: the calls of onSelectNotebook made for what getNodeAt returned
handleClick(node) == IF node # Null THEN <<node>> ELSE <<>>

\* the sidebar's handleClick, given as onSelectNotebook: editor.select(shapeId)
onSelectNotebook(sel, ids) == IF ids = <<>> THEN sel ELSE {ids[Len(ids)]}

----------------------------------------------------------------------------
(* Inputs *)

RECURSIVE Flatten(_)
Flatten(ss) == IF ss = <<>> THEN <<>> ELSE Head(ss) \o Flatten(Tail(ss))

\* the pieces texts are made of
TextPieces ==
    {<<"[", "[">>, <<"]", "]">>, <<"[">>, <<"]">>, <<"|">>, <<" ">>, <<"a">>, <<"|", "a">>}

\* the wikilinks notebooks are written with: [[a]], [[b]] and [[ b |x]]
LinkA == <<"[", "[", "a", "]", "]">>
LinkB == <<"[", "[", "b", "]", "]">>
LinkBLabelled == <<"[", "[", " ", "b", " ", "|", "x", "]", "]">>

\* the markdown of a notebook: no link, one link, the same link twice, two
\* different links in either order, a labelled link after plain text
Markdowns ==
    {<<>>, LinkA, LinkB, LinkA \o LinkA, LinkA \o LinkB, LinkB \o <<" ">> \o LinkA,
     <<"x", " ">> \o LinkBLabelled}

\* the texts handed to parseWikilinks: up to MaxSegs pieces in a row, or the
\* markdown of a notebook
IsText(s) ==
    \/ \E n \in 0..MaxSegs : \E ps \in [1..n -> TextPieces] : s = Flatten(ps)
    \/ s \in Markdowns

\* notebook ids and titles, and the targets asked for
Names == {<<>>, <<"a">>, <<"A">>, <<"b">>}

\* the candidate lists handed to resolveWikilink.  tldraw shape ids are
\* unique per shape: the i-th shape of the page has id i
IsCandidateList(arr) ==
    \E n \in 0..MaxCandidates :
        \E f \in [1..n -> [notebookId : Names, title : Names]] :
            arr = [i \in 1..n |-> [shapeId |-> i, notebookId |-> f[i].notebookId,
                                   title |-> f[i].title]]

NotebookIds == {<<"a">>, <<"b">>}
Titles == {<<"A">>, <<"B">>}

\* the notebook lists handed to buildConnectionMap
IsNotebookList(arr) ==
    \E n \in 0..MaxNotebooks :
        \E f \in [1..n -> [notebookId : NotebookIds, title : Titles,
                           markdown : Markdowns]] :
            arr = [i \in 1..n |-> [shapeId |-> i, notebookId |-> f[i].notebookId,
                                   title |-> f[i].title, markdown |-> f[i].markdown]]

\* three notebooks A, B and C where only A holds links: one to the title of
\* B and one, labelled, to the id of C
ScenarioText == <<"S", "e", "e", " ", "[", "[", "B", "]", "]", " ", "a", "n", "d", " ", "[", "[", "c", "-", "i", "d", "|", "G", "a", "m", "m", "a", "]", "]">>
NoLinkTexts == {<<>>, <<"[", "[", "x", "]">>}
IsScenario(arr) ==
    \E mdB, mdC \in NoLinkTexts :
        arr = <<[shapeId |-> 1, notebookId |-> <<"a", "-", "i", "d">>, title |-> <<"A">>,
                 markdown |-> ScenarioText],
                [shapeId |-> 2, notebookId |-> <<"b", "-", "i", "d">>, title |-> <<"B">>,
                 markdown |-> mdB],
                [shapeId |-> 3, notebookId |-> <<"c", "-", "i", "d">>, title |-> <<"G", "a", "m", "m", "a">>,
                 markdown |-> mdC]>>

\* two notebooks linking to the one between them, the first of them twice
FanIn ==
    <<[shapeId |-> 1, notebookId |-> <<"b">>, title |-> <<"B">>,
       markdown |-> LinkA \o LinkA],
      [shapeId |-> 2, notebookId |-> <<"a">>, title |-> <<"A">>, markdown |-> <<>>],
      [shapeId |-> 3, notebookId |-> <<"b">>, title |-> <<"B">>, markdown |-> LinkA]>>

\* positions and sizes of notebook shapes; 320 by 400 is the size of a new one
Boxes ==
    {[x |-> 0, y |-> 0, w |-> 320, h |-> 400],
     [x |-> 500, y |-> -100, w |-> 320, h |-> 400],
     [x |-> -40, y |-> 600, w |-> 200, h |-> 150],
     [x |-> 500, y |-> 600, w |-> 640, h |-> 150]}

\* the notebook lists the overlay is rendered for: with connections, one of
\* them twice, and without any
OverlayLists == {FanIn, SubSeq(FanIn, 1, 2), SubSeq(FanIn, 2, 3), SubSeq(FanIn, 2, 2), <<>>}

\* the notebooks of a list with the position and size of their shapes
placed(nbs, boxes) ==
    [i \in 1..Len(nbs) |->
        [shapeId |-> nbs[i].shapeId, notebookId |-> nbs[i].notebookId,
         title |-> nbs[i].title, markdown |-> nbs[i].markdown,
         x |-> boxes[i].x, y |-> boxes[i].y, w |-> boxes[i].w, h |-> boxes[i].h]]

\* the selected ids: those of the notebooks of a list and ids of none of them
SelectableIds == 1..(MaxNotebooks + 2)

----------------------------------------------------------------------------
(* The calls *)

\* no canvas, no sidebar and no graph view: the functions are called on their
\* own
NoCanvas ==
    /\ shapes = <<>>
    /\ selection = {}
    /\ editor = FALSE
    /\ created = 0
    /\ mounted = FALSE
    /\ intervals = {}
    /\ interval = 0
    /\ graphMounted = FALSE
    /\ instance = 0
    /\ simulations = {}
    /\ listeners = {}
    /\ timeouts = {}
    /\ drawing = 0
    /\ hovered = Null
    /\ collide = <<>>
    /\ pointer = NoEvent
    /\ callbacks = <<>>
    /\ overlay = [svg |-> FALSE, lines |-> <<>>]
    /\ graph = [nodes |-> <<>>, links |-> <<>>]
    /\ offered = NoOption
    /\ anchors = NotRendered

InitParse ==
    /\ IsText(text)
    /\ results = <<>>
    /\ target = <<>>
    /\ candidates = <<>>
    /\ resolved = Undefined
    /\ notebooks = <<>>
    /\ connections = <<>>
    /\ threw = FALSE
    /\ called = "none"
    /\ calls = <<>>
    /\ selectedId = Null
    /\ backlinks = <<>>
    /\ NoCanvas

ParseWikilinksCall ==
    /\ called = "none"
    /\ results' = parseWikilinks(text)
    /\ called' = "parseWikilinks"
    /\ calls' = Append(calls, [text |-> text, results |-> results'])
    /\ UNCHANGED <<text, target, candidates, resolved, notebooks, connections, threw,
                   selectedId, backlinks, uiVars, graphVars, viewVars>>

NextParse == ParseWikilinksCall

SpecParse == InitParse /\ [][NextParse]_vars

\* a sequence of calls: the caller takes another text and calls again
InitCalls ==
    /\ InitParse
    /\ text \in Markdowns

NextText ==
    /\ called = "parseWikilinks"
    /\ Len(calls) < MaxCalls
    /\ text' \in Markdowns
    /\ called' = "none"
    /\ UNCHANGED <<results, target, candidates, resolved, notebooks, connections, threw,
                   calls, selectedId, backlinks, uiVars, graphVars, viewVars>>

NextCalls == ParseWikilinksCall \/ NextText

SpecCalls == InitCalls /\ [][NextCalls]_vars


InitResolve ==
    /\ text = <<>>
    /\ results = <<>>
    /\ target \in Names
    /\ IsCandidateList(candidates)
    /\ resolved = Undefined
    /\ notebooks = <<>>
    /\ connections = <<>>
    /\ threw = FALSE
    /\ called = "none"
    /\ calls = <<>>
    /\ selectedId = Null
    /\ backlinks = <<>>
    /\ NoCanvas

ResolveWikilinkCall ==
    /\ called = "none"
    /\ resolved' = resolveWikilink(target, candidates)
    /\ called' = "resolveWikilink"
    /\ UNCHANGED <<text, results, target, candidates, notebooks, connections, threw, calls,
                   selectedId, backlinks, uiVars, graphVars, viewVars>>

NextResolve == ResolveWikilinkCall

SpecResolve == InitResolve /\ [][NextResolve]_vars

Init ==
    /\ text = <<>>
    /\ results = <<>>
    /\ target = <<>>
    /\ candidates = <<>>
    /\ resolved = Undefined
    /\ IsNotebookList(notebooks)
    /\ connections = <<>>
    /\ threw = FALSE
    /\ called = "none"
    /\ calls = <<>>
    /\ selectedId = Null
    /\ backlinks = <<>>
    /\ NoCanvas

BuildConnectionMapCall ==
    /\ called = "none"
    /\ threw' = buildConnectionMapThrows(notebooks)
    /\ connections' = IF threw' THEN <<>> ELSE buildConnectionMap(notebooks)
    /\ called' = "buildConnectionMap"
    /\ UNCHANGED <<text, results, target, candidates, resolved, notebooks, calls,
                   selectedId, backlinks, uiVars, graphVars, viewVars>>

Next == BuildConnectionMapCall

Spec == Init /\ [][Next]_vars

\* what the views derive from one notebook list: the connections, then the
\* backlinks of the notebook that gets selected
InitBacklinks ==
    /\ text = <<>>
    /\ results = <<>>
    /\ target = <<>>
    /\ candidates = <<>>
    /\ resolved = Undefined
    /\ IsNotebookList(notebooks) \/ IsScenario(notebooks) \/ notebooks = FanIn
    /\ connections = <<>>
    /\ threw = FALSE
    /\ called = "none"
    /\ calls = <<>>
    /\ selectedId = Null
    /\ backlinks = <<>>
    /\ NoCanvas

BacklinksMemo ==
    /\ called = "buildConnectionMap"
    /\ \E sel \in SelectableIds \cup {Null} :
        /\ selectedId' = sel
        /\ backlinks' = backlinksOf(notebooks, sel)
    /\ called' = "backlinks"
    /\ UNCHANGED <<text, results, target, candidates, resolved, notebooks, connections,
                   threw, calls, uiVars, graphVars, viewVars>>

NextBacklinks == BuildConnectionMapCall \/ BacklinksMemo

SpecBacklinks == InitBacklinks /\ [][NextBacklinks]_vars

----------------------------------------------------------------------------
(* The connection overlay rendered over the canvas *)

InitOverlay ==
    /\ text = <<>>
    /\ results = <<>>
    /\ target = <<>>
    /\ candidates = <<>>
    /\ resolved = Undefined
    /\ \E nbs \in OverlayLists : \E boxes \in [1..Len(nbs) -> Boxes] :
        notebooks = placed(nbs, boxes)
    /\ connections = <<>>
    /\ threw = FALSE
    /\ called = "none"
    /\ calls = <<>>
    /\ selectedId = Null
    /\ backlinks = <<>>
    /\ NoCanvas

\* the first render of the overlay
ConnectionLinesRender ==
    /\ called = "none"
    /\ overlay' = ConnectionLines(notebooks)
    /\ called' = "ConnectionLines"
    /\ UNCHANGED <<text, results, target, candidates, resolved, notebooks, connections,
                   threw, calls, selectedId, backlinks, uiVars, graphVars, graph, editVars>>

\* a notebook shape is moved or resized on the canvas: the shapes the overlay
\* tracks change and it renders again
ShapeMoved ==
    /\ called = "ConnectionLines"
    /\ \E i \in 1..Len(notebooks), box \in Boxes :
        /\ <<box.x, box.y, box.w, box.h>>
            # <<notebooks[i].x, notebooks[i].y, notebooks[i].w, notebooks[i].h>>
        /\ notebooks' = [notebooks EXCEPT ![i].x = box.x, ![i].y = box.y,
                                          ![i].w = box.w, ![i].h = box.h]
    /\ overlay' = ConnectionLines(notebooks')
    /\ UNCHANGED <<text, results, target, candidates, resolved, connections, threw, called,
                   calls, selectedId, backlinks, uiVars, graphVars, graph, editVars>>

\* a notebook shape is deleted on the canvas and the overlay renders again
ShapeDeleted ==
    /\ called = "ConnectionLines"
    /\ \E i \in 1..Len(notebooks) :
        notebooks' = SelectSeq(notebooks, LAMBDA n : n.shapeId # notebooks[i].shapeId)
    /\ overlay' = ConnectionLines(notebooks')
    /\ UNCHANGED <<text, results, target, candidates, resolved, connections, threw, called,
                   calls, selectedId, backlinks, uiVars, graphVars, graph, editVars>>

NextOverlay == ConnectionLinesRender \/ ShapeMoved \/ ShapeDeleted

SpecOverlay == InitOverlay /\ [][NextOverlay]_vars

----------------------------------------------------------------------------
(* The graph data computed for a notebook list *)

InitGraphData ==
    /\ text = <<>>
    /\ results = <<>>
    /\ target = <<>>
    /\ candidates = <<>>
    /\ resolved = Undefined
    /\ IsNotebookList(notebooks) \/ IsScenario(notebooks) \/ notebooks = FanIn
    /\ connections = <<>>
    /\ threw = FALSE
    /\ called = "none"
    /\ calls = <<>>
    /\ selectedId = Null
    /\ backlinks = <<>>
    /\ NoCanvas

\* GraphView is rendered with the list: the memo computes nodes and links
GraphDataMemo ==
    /\ called = "none"
    /\ graph' = graphData(notebooks)
    /\ called' = "GraphView"
    /\ UNCHANGED <<text, results, target, candidates, resolved, notebooks, connections,
                   threw, calls, selectedId, backlinks, uiVars, graphVars, overlay, editVars>>

NextGraphData == GraphDataMemo

SpecGraphData == InitGraphData /\ [][NextGraphData]_vars

----------------------------------------------------------------------------
(* The sidebar polling the canvas *)

\* the board before its first render: nothing mounted, an empty page
InitSidebar ==
    /\ text = <<>>
    /\ results = <<>>
    /\ target = <<>>
    /\ candidates = <<>>
    /\ resolved = Undefined
    /\ notebooks = <<>>
    /\ connections = <<>>
    /\ threw = FALSE
    /\ called = "none"
    /\ calls = <<>>
    /\ selectedId = Null
    /\ backlinks = <<>>
    /\ NoCanvas

libVars == <<text, results, target, candidates, resolved, connections, threw, calls>>

\* refresh: nothing is set while editorRef.current is null; otherwise the
\* list and the selected id are set together and the render that follows
\* recomputes the backlinks
Refresh ==
    /\ notebooks' = IF editor THEN listed(notebooks, shapes) ELSE notebooks
    /\ selectedId' = IF editor THEN selected(selectedId, selection, shapes) ELSE selectedId
    /\ backlinks' = backlinksOf(notebooks', selectedId')
    /\ called' = "refresh"

\* Tldraw's onMount stores the editor in editorRef.current
EditorMount ==
    /\ ~editor
    /\ editor' = TRUE
    /\ called' = "canvas"
    /\ UNCHANGED <<libVars, notebooks, selectedId, backlinks, shapes, selection, created,
                   mounted, intervals, interval, graphVars, viewVars>>

\* the sidebar is shown: its state starts empty, the effect runs refresh and
\* sets the interval
SidebarMount ==
    /\ ~mounted
    /\ mounted' = TRUE
    /\ notebooks' = IF editor THEN listed(<<>>, shapes) ELSE <<>>
    /\ selectedId' = IF editor THEN selected(Null, selection, shapes) ELSE Null
    /\ backlinks' = backlinksOf(notebooks', selectedId')
    /\ called' = "refresh"
    /\ interval' = newHandle(intervals)
    /\ intervals' = intervals \cup {interval'}
    /\ UNCHANGED <<libVars, shapes, selection, editor, created, graphVars, viewVars>>

\* the sidebar is hidden: the cleanup of the effect runs and the state of the
\* component is gone
SidebarUnmount ==
    /\ mounted
    /\ mounted' = FALSE
    /\ intervals' = clearInterval(intervals, interval)
    /\ interval' = 0
    /\ notebooks' = <<>>
    /\ selectedId' = Null
    /\ backlinks' = <<>>
    /\ called' = "unmount"
    /\ UNCHANGED <<libVars, shapes, selection, editor, created, graphVars, viewVars>>

\* the sidebar is rendered with another editorRef: the cleanup runs, then the
\* effect again
EditorRefChange ==
    /\ mounted
    /\ Refresh
    /\ interval' = newHandle(clearInterval(intervals, interval))
    /\ intervals' = clearInterval(intervals, interval) \cup {interval'}
    /\ UNCHANGED <<libVars, shapes, selection, editor, created, mounted, graphVars, viewVars>>

\* an interval that is set fires
Tick ==
    /\ intervals # {}
    /\ Refresh
    /\ UNCHANGED <<libVars, uiVars, graphVars, viewVars>>

AddNotebook ==
    /\ editor
    /\ created < MaxShapes
    /\ created' = created + 1
    /\ shapes' = Append(shapes, newNotebook(created'))
    /\ called' = "canvas"
    /\ UNCHANGED <<libVars, notebooks, selectedId, backlinks, selection, editor, mounted,
                   intervals, interval, graphVars, viewVars>>

EditNotebook ==
    /\ editor
    /\ \E i \in 1..Len(shapes) : \E value \in EditTexts :
        /\ value # shapes[i].markdown
        /\ shapes' = [shapes EXCEPT ![i] = changed(shapes[i], value)]
    /\ called' = "canvas"
    /\ UNCHANGED <<libVars, notebooks, selectedId, backlinks, selection, editor, created,
                   mounted, intervals, interval, graphVars, viewVars>>

\* a notebook is deleted on the canvas; the editor takes it out of the
\* selection
DeleteNotebook ==
    /\ editor
    /\ \E i \in 1..Len(shapes) :
        /\ shapes' = SelectSeq(shapes, LAMBDA sh : sh.id # shapes[i].id)
        /\ selection' = selection \ {shapes[i].id}
    /\ called' = "canvas"
    /\ UNCHANGED <<libVars, notebooks, selectedId, backlinks, editor, created, mounted,
                   intervals, interval, graphVars, viewVars>>

\* the selection on the canvas changes: nothing, one shape (a click on the
\* canvas or on an entry of the sidebar), or everything on the page
SelectShapes ==
    /\ editor
    /\ \E sel \in {{}, {OtherShape}, {shapes[i].id : i \in 1..Len(shapes)} \cup {OtherShape}}
                  \cup {{shapes[i].id} : i \in 1..Len(shapes)} :
        /\ sel # selection
        /\ selection' = sel
    /\ called' = "canvas"
    /\ UNCHANGED <<libVars, notebooks, selectedId, backlinks, shapes, editor, created,
                   mounted, intervals, interval, graphVars, viewVars>>

NextSidebar ==
    \/ EditorMount
    \/ SidebarMount
    \/ SidebarUnmount
    \/ EditorRefChange
    \/ Tick
    \/ AddNotebook
    \/ EditNotebook
    \/ DeleteNotebook
    \/ SelectShapes

SpecSidebar == InitSidebar /\ [][NextSidebar]_vars

----------------------------------------------------------------------------
(* The canvas on its own: notebooks created, typed into, deleted, selected *)

\* the notebook tool is picked and a box is drawn on the canvas
ToolCreate ==
    /\ editor
    /\ created < MaxShapes
    /\ created' = created + 1
    /\ shapes' = Append(shapes, toolNotebook(created'))
    /\ called' = "canvas"
    /\ UNCHANGED <<libVars, notebooks, selectedId, backlinks, selection, editor, mounted,
                   intervals, interval, graphVars, viewVars>>

\* handleChange with what the editor of a notebook holds after a keystroke
TypeInNotebook ==
    /\ editor
    /\ \E i \in 1..Len(shapes) : \E value \in TypedTexts :
        /\ value # shapes[i].markdown
        /\ shapes' = [shapes EXCEPT ![i] = changed(shapes[i], value)]
    /\ called' = "handleChange"
    /\ UNCHANGED <<libVars, notebooks, selectedId, backlinks, selection, editor, created,
                   mounted, intervals, interval, graphVars, viewVars>>

NextCanvas ==
    \/ EditorMount
    \/ AddNotebook
    \/ ToolCreate
    \/ TypeInNotebook
    \/ DeleteNotebook
    \/ SelectShapes

SpecCanvas == InitSidebar /\ [][NextCanvas]_vars

----------------------------------------------------------------------------
(* A saved board opened again: a link by id and the renames around it *)

\* the board as it was saved: the first notebook, retitled by a heading,
\* links to the second by its notebookId
SavedBoard ==
    <<changed(newNotebook(1), <<"#", " ", "S", "\n">> \o <<"[", "[">> \o noteId(2) \o <<"]", "]">>),
      newNotebook(2),
      newNotebook(3)>>

\* the texts a notebook is given when it is renamed: a new heading, and a
\* heading that spells the notebookId of the second notebook
RenameTexts == {<<"#", " ", "B">>, <<"#", " ">> \o noteId(2)}

\* the board is loaded from its snapshot; nothing is mounted yet
InitBoard ==
    /\ text = <<>>
    /\ results = <<>>
    /\ target = <<>>
    /\ candidates = <<>>
    /\ resolved = Undefined
    /\ notebooks = <<>>
    /\ connections = <<>>
    /\ threw = FALSE
    /\ called = "none"
    /\ calls = <<>>
    /\ selectedId = Null
    /\ backlinks = <<>>
    /\ shapes = SavedBoard
    /\ created = Len(SavedBoard)
    /\ selection = {}
    /\ editor = FALSE
    /\ mounted = FALSE
    /\ intervals = {}
    /\ interval = 0
    /\ graphMounted = FALSE
    /\ instance = 0
    /\ simulations = {}
    /\ listeners = {}
    /\ timeouts = {}
    /\ drawing = 0
    /\ hovered = Null
    /\ collide = <<>>
    /\ pointer = NoEvent
    /\ callbacks = <<>>
    /\ overlay = [svg |-> FALSE, lines |-> <<>>]
    /\ graph = [nodes |-> <<>>, links |-> <<>>]
    /\ offered = NoOption
    /\ anchors = NotRendered

\* handleChange with the text of a notebook replaced by another heading
RenameNotebook ==
    /\ editor
    /\ \E i \in 1..Len(shapes) : \E value \in RenameTexts :
        /\ value # shapes[i].markdown
        /\ shapes' = [shapes EXCEPT ![i] = changed(shapes[i], value)]
    /\ called' = "handleChange"
    /\ UNCHANGED <<libVars, notebooks, selectedId, backlinks, selection, editor, created,
                   mounted, intervals, interval, graphVars, viewVars>>

NextBoard ==
    \/ EditorMount
    \/ SidebarMount
    \/ Tick
    \/ RenameNotebook
    \/ SelectShapes

SpecBoard == InitBoard /\ [][NextBoard]_vars

----------------------------------------------------------------------------
(* An autocomplete option applied, then parsed and resolved *)

\* the texts of the notebooks of the board: headings with plain titles, a
\* title holding a | and a title holding a ]
CompletionHeadings ==
    {DefaultMarkdown, <<"#", " ", "B">>, <<"#", " ", "b", " ", "2">>,
     <<"#", " ", "A", "|", "B">>, <<"#", " ", "a", "]", "b">>}

\* what stands after [[ when the options are asked for
Queries == {<<>>, <<"b">>}

\* a board of notebooks made with addNotebook and given their texts
InitComplete ==
    /\ text = <<>>
    /\ results = <<>>
    /\ target = <<>>
    /\ candidates = <<>>
    /\ resolved = Undefined
    /\ notebooks = <<>>
    /\ connections = <<>>
    /\ threw = FALSE
    /\ called = "none"
    /\ calls = <<>>
    /\ selectedId = Null
    /\ backlinks = <<>>
    /\ \E n \in 1..MaxShapes : \E f \in [1..n -> CompletionHeadings] :
        /\ shapes = [i \in 1..n |-> changed(newNotebook(i), f[i])]
        /\ created = n
    /\ selection = {}
    /\ editor = FALSE
    /\ mounted = FALSE
    /\ intervals = {}
    /\ interval = 0
    /\ graphMounted = FALSE
    /\ instance = 0
    /\ simulations = {}
    /\ listeners = {}
    /\ timeouts = {}
    /\ drawing = 0
    /\ hovered = Null
    /\ collide = <<>>
    /\ pointer = NoEvent
    /\ callbacks = <<>>
    /\ overlay = [svg |-> FALSE, lines |-> <<>>]
    /\ graph = [nodes |-> <<>>, links |-> <<>>]
    /\ offered = NoOption
    /\ anchors = NotRendered

\* [[ and a query are typed in a notebook, the completion source answers and
\* one of its options is applied: its text is what gets inserted
CompletionApply ==
    /\ editor
    /\ offered = NoOption
    /\ \E self \in 1..Len(shapes), query \in Queries :
        LET options == completionOptions(query, getNotebooks(shapes, shapes[self].id))
            from == optionShapes(query, shapes, shapes[self].id)
        IN  \E k \in 1..Len(options) :
                /\ text' = options[k].apply
                /\ offered' = [option |-> options[k], shapeId |-> from[k].id]
    /\ called' = "apply"
    /\ UNCHANGED <<results, target, candidates, resolved, notebooks, connections, threw,
                   calls, selectedId, backlinks, uiVars, graphVars, overlay, graph, anchors>>

\* the inserted text is parsed
ParseInserted ==
    /\ called = "apply"
    /\ results' = parseWikilinks(text)
    /\ called' = "parseWikilinks"
    /\ UNCHANGED <<text, target, candidates, resolved, notebooks, connections, threw,
                   calls, selectedId, backlinks, uiVars, graphVars, viewVars>>

\* the target of its first link is resolved against the notebooks of the
\* board
ResolveInserted ==
    /\ called = "parseWikilinks"
    /\ results # <<>>
    /\ target' = results[1].target
    /\ candidates' = infoListOf(listed(<<>>, shapes))
    /\ resolved' = resolveWikilink(target', candidates')
    /\ called' = "resolveWikilink"
    /\ UNCHANGED <<text, results, notebooks, connections, threw, calls, selectedId,
                   backlinks, uiVars, graphVars, viewVars>>

NextComplete ==
    \/ EditorMount
    \/ CompletionApply
    \/ ParseInserted
    \/ ResolveInserted

SpecComplete == InitComplete /\ [][NextComplete]_vars

----------------------------------------------------------------------------
(* A text rendered as markdown, then parsed *)

\* the notebook is shown, not edited: its markdown is rendered
RenderMarkdownCall ==
    /\ called = "none"
    /\ anchors' = renderMarkdown(text)
    /\ called' = "renderMarkdown"
    /\ UNCHANGED <<text, results, target, candidates, resolved, notebooks, connections,
                   threw, calls, selectedId, backlinks, uiVars, graphVars, overlay, graph,
                   offered>>

\* the same text is parsed for its connections
ParseRendered ==
    /\ called = "renderMarkdown"
    /\ results' = parseWikilinks(text)
    /\ called' = "parseWikilinks"
    /\ UNCHANGED <<text, target, candidates, resolved, notebooks, connections, threw,
                   calls, selectedId, backlinks, uiVars, graphVars, viewVars>>

NextRender == RenderMarkdownCall \/ ParseRendered

SpecRender == InitParse /\ [][NextRender]_vars

----------------------------------------------------------------------------
(* The graph view *)

\* the notebook lists the graph view is given
GraphLists == {FanIn, SubSeq(FanIn, 1, 2)}

\* the graph tab before it is opened
InitGraph ==
    /\ text = <<>>
    /\ results = <<>>
    /\ target = <<>>
    /\ candidates = <<>>
    /\ resolved = Undefined
    /\ notebooks \in GraphLists
    /\ connections = <<>>
    /\ threw = FALSE
    /\ called = "none"
    /\ calls = <<>>
    /\ selectedId = Null
    /\ backlinks = <<>>
    /\ NoCanvas

hostVars == <<libVars, called, backlinks, shapes, editor, created, mounted, intervals,
              interval>>

\* the body of the effect, after the cleanup of the run before it: nothing is
\* created when the canvas has no 2d context; otherwise the simulation over
\* copies of the nodes, the delayed draw and the two listeners
RunEffect(sims, ls, ts) ==
    /\ instance' = instance + 1
    /\ \E ctx \in BOOLEAN :
        /\ simulations' = IF ctx THEN sims \cup {instance'} ELSE sims
        /\ timeouts' = IF ctx THEN ts \cup {instance'} ELSE ts
        /\ listeners' = IF ctx THEN ls \cup {instance'} ELSE ls
        /\ collide' = IF ctx THEN collideRadii(graph'.nodes) ELSE <<>>
    /\ drawing' = 0
    /\ pointer' = NoEvent
    /\ callbacks' = <<>>

\* the graph tab is opened on a list that is not empty
GraphMount ==
    /\ ~graphMounted
    /\ notebooks # <<>>
    /\ instance < MaxInstances
    /\ graphMounted' = TRUE
    /\ graph' = graphData(notebooks)
    /\ RunEffect(simulations, listeners, timeouts)
    /\ UNCHANGED <<hostVars, notebooks, selectedId, selection, hovered, overlay,
                   editVars>>

\* the view is rendered with another list or another selected id: the
\* cleanup of the latest run, then the effect again
GraphInputsChange ==
    /\ graphMounted
    /\ instance < MaxInstances
    /\ \E nbs \in GraphLists :
        \E sel \in {Null} \cup {nbs[i].shapeId : i \in 1..Len(nbs)} :
            /\ <<nbs, sel>> # <<notebooks, selectedId>>
            /\ notebooks' = nbs
            /\ selectedId' = sel
    /\ graph' = graphData(notebooks')
    /\ RunEffect(stopped(simulations, instance), removed(listeners, instance),
                 afterCleanup(timeouts, instance))
    /\ UNCHANGED <<hostVars, graphMounted, selection, hovered, overlay,
                   editVars>>

\* the graph tab is left: the cleanup of the latest run
GraphUnmount ==
    /\ graphMounted
    /\ graphMounted' = FALSE
    /\ simulations' = stopped(simulations, instance)
    /\ listeners' = removed(listeners, instance)
    /\ timeouts' = afterCleanup(timeouts, instance)
    /\ drawing' = 0
    /\ hovered' = Null
    /\ collide' = <<>>
    /\ pointer' = NoEvent
    /\ callbacks' = <<>>
    /\ graph' = [nodes |-> <<>>, links |-> <<>>]
    /\ UNCHANGED <<hostVars, notebooks, selectedId, selection, instance, overlay,
                   editVars>>

\* a simulation that is not stopped ticks and draws
SimulationTick ==
    /\ \E i \in simulations : drawing' = i
    /\ pointer' = NoEvent
    /\ callbacks' = <<>>
    /\ UNCHANGED <<hostVars, notebooks, selectedId, selection, graphMounted, instance,
                   simulations, listeners, timeouts, hovered, collide, viewVars>>

\* setTimeout(() => draw(), 100) of a run comes due
DelayedDraw ==
    /\ \E i \in timeouts :
        /\ timeouts' = timeouts \ {i}
        /\ drawing' = i
    /\ pointer' = NoEvent
    /\ callbacks' = <<>>
    /\ UNCHANGED <<hostVars, notebooks, selectedId, selection, graphMounted, instance,
                   simulations, listeners, hovered, collide, viewVars>>

\* handleMouseMove of a run whose listeners are on the canvas; hit is what
\* getNodeAt returns for the pointer
MouseMove ==
    /\ \E i \in listeners, hit \in {Null} \cup {notebooks[n].shapeId : n \in 1..Len(notebooks)} :
        /\ hovered' = hit
        /\ drawing' = i
        /\ pointer' = [event |-> "mousemove", hit |-> hit]
    /\ callbacks' = <<>>
    /\ UNCHANGED <<hostVars, notebooks, selectedId, selection, graphMounted, instance,
                   simulations, listeners, timeouts, collide, viewVars>>

\* handleClick of a run whose listeners are on the canvas: onSelectNotebook,
\* the sidebar's handleClick, selects the shape in the editor
Click ==
    /\ \E i \in listeners, hit \in {Null} \cup {notebooks[n].shapeId : n \in 1..Len(notebooks)} :
        /\ pointer' = [event |-> "click", hit |-> hit]
        /\ callbacks' = handleClick(hit)
    /\ selection' = onSelectNotebook(selection, callbacks')
    /\ drawing' = 0
    /\ UNCHANGED <<hostVars, notebooks, selectedId, graphMounted, instance, simulations,
                   listeners, timeouts, hovered, collide, viewVars>>

NextGraph ==
    \/ GraphMount
    \/ GraphInputsChange
    \/ GraphUnmount
    \/ SimulationTick
    \/ DelayedDraw
    \/ MouseMove
    \/ Click

SpecGraph == InitGraph /\ [][NextGraph]_vars

----------------------------------------------------------------------------
(* Vocabulary of the properties, stated without the functions above *)

Range(seq) == {seq[i] : i \in DOMAIN seq}

\* c and d are the same character up to letter case
SameLetter(c, d) ==
    \/ c = d
    \/ \E k \in 1..Len(UpperLetters) : {c, d} = {UpperLetters[k], LowerLetters[k]}

\* s and t are equal ignoring letter case
EqualIgnoringCase(s, t) ==
    /\ Len(s) = Len(t)
    /\ \A i \in 1..Len(s) : SameLetter(s[i], t[i])

\* t is s with its surrounding white space removed
IsTrimOf(t, s) ==
    \E i \in 0..Len(s) : \E j \in i..Len(s) :
        /\ t = SubSeq(s, i + 1, j)
        /\ \A k \in 1..i : IsWhiteSpace(s[k])
        /\ \A k \in (j + 1)..Len(s) : IsWhiteSpace(s[k])
        /\ t # <<>> => ~IsWhiteSpace(t[1]) /\ ~IsWhiteSpace(t[Len(t)])

\* the positions of the candidates whose notebookId is the target
IdMatches == {i \in 1..Len(candidates) : candidates[i].notebookId = target}

\* the positions of the candidates whose title is the target ignoring case
TitleMatches == {i \in 1..Len(candidates) : EqualIgnoringCase(candidates[i].title, target)}

ResolveReturned == called = "resolveWikilink"
BuildReturned == called = "buildConnectionMap"
ParseReturned == called = "parseWikilinks"

\* the notebook matches the target by id, or by title ignoring case
Names_Match(n, tgt) == n.notebookId = tgt \/ EqualIgnoringCase(n.title, tgt)

\* no notebook of the list matches the target
Dangling(tgt, nbs) == \A i \in 1..Len(nbs) : ~Names_Match(nbs[i], tgt)

\* the targets of the wikilinks of a notebook, in order
LinkTargets(n) ==
    LET links == parseWikilinks(n.markdown)
    IN  [k \in 1..Len(links) |-> links[k].target]

----------------------------------------------------------------------------
(* buildConnectionMap: C1 - C4, under Spec *)

\* C1: the list returned by buildConnectionMap holds each ordered pair
\* (sourceShapeId, targetShapeId) at most once, however many wikilinks of the
\* source resolve to the same target.
C1_EachPairAtMostOnce ==
    BuildReturned =>
        \A i, j \in 1..Len(connections) : connections[i] = connections[j] => i = j

\* C2: buildConnectionMap returns no pair whose source and target shapeId are
\* equal; a notebook none of whose wikilinks resolves to another notebook is
\* the source of no pair.
C2_NoSelfConnection ==
    BuildReturned =>
        /\ \A k \in 1..Len(connections) : connections[k][1] # connections[k][2]
        /\ \A i \in 1..Len(notebooks) :
            (\A tgt \in Range(LinkTargets(notebooks[i])) :
                \/ Dangling(tgt, notebooks)
                \/ resolveWikilink(tgt, infoListOf(notebooks)).shapeId = notebooks[i].shapeId)
            => \A k \in 1..Len(connections) : connections[k][1] # notebooks[i].shapeId

\* a notebook holds a wikilink that resolves to the notebook itself, and
\* another that resolves to a different notebook and is returned
C2_Witness ==
    /\ BuildReturned
    /\ connections # <<>>
    /\ \E i \in 1..Len(notebooks) :
        /\ \E tgt \in Range(LinkTargets(notebooks[i])) :
            /\ ~Dangling(tgt, notebooks)
            /\ resolveWikilink(tgt, infoListOf(notebooks)).shapeId = notebooks[i].shapeId
        /\ \E k \in 1..Len(connections) : connections[k][1] = notebooks[i].shapeId

\* C3: buildConnectionMap returns instead of throwing; every returned pair
\* has its source and its target among the input notebooks, and the target
\* matches, by id or by title ignoring case, a wikilink of the source; a
\* notebook returns no more pairs than it has wikilinks that are not dangling.
C3_DanglingGivesNoEdge ==
    BuildReturned =>
        /\ ~threw
        /\ \A k \in 1..Len(connections) :
            \E i, j \in 1..Len(notebooks) :
                /\ connections[k] = <<notebooks[i].shapeId, notebooks[j].shapeId>>
                /\ \E tgt \in Range(LinkTargets(notebooks[i])) :
                    Names_Match(notebooks[j], tgt)
        /\ \A i \in 1..Len(notebooks) :
            Cardinality({k \in 1..Len(connections) :
                            connections[k][1] = notebooks[i].shapeId})
                <= Cardinality({k \in 1..Len(LinkTargets(notebooks[i])) :
                                    ~Dangling(LinkTargets(notebooks[i])[k], notebooks)})

\* a notebook holds a dangling wikilink next to one that is returned
C3_Witness ==
    /\ BuildReturned
    /\ ~threw
    /\ \E i \in 1..Len(notebooks) :
        /\ \E tgt \in Range(LinkTargets(notebooks[i])) : Dangling(tgt, notebooks)
        /\ \E k \in 1..Len(connections) : connections[k][1] = notebooks[i].shapeId

\* C4: for distinct notebooks s and t of the input, (s.shapeId, t.shapeId)
\* is returned if and only if some wikilink parsed from s.markdown has a
\* target that resolveWikilink maps, over the full list, to t.
C4_PairIffResolvedLink ==
    BuildReturned =>
        \A i, j \in 1..Len(notebooks) :
            i # j =>
                (<<notebooks[i].shapeId, notebooks[j].shapeId>> \in Range(connections)
                 <=> \E tgt \in Range(LinkTargets(notebooks[i])) :
                        resolveWikilink(tgt, infoListOf(notebooks))
                            = infoListOf(notebooks)[j])

\* two notebooks share a notebookId, and the second one's wikilink is
\* returned as a pair to the first
C4_Witness ==
    /\ BuildReturned
    /\ \E i, j \in 1..Len(notebooks) :
        /\ i # j
        /\ notebooks[i].notebookId = notebooks[j].notebookId
        /\ <<notebooks[i].shapeId, notebooks[j].shapeId>> \in Range(connections)
        /\ <<notebooks[j].shapeId, notebooks[i].shapeId>> \notin Range(connections)
        /\ LinkTargets(notebooks[j]) # <<>>

\* the position of the notebook a target resolves to by first match: the
\* first notebook with that id, else the first with that title ignoring
\* case, else 0
FirstMatch(tgt, nbs) ==
    LET ids == {i \in 1..Len(nbs) : nbs[i].notebookId = tgt}
        titles == {i \in 1..Len(nbs) : EqualIgnoringCase(nbs[i].title, tgt)}
    IN  IF ids # {} THEN Min(ids) ELSE IF titles # {} THEN Min(titles) ELSE 0

\* C17: resolution is over all notebooks, the source included, and the
\* self-link test comes after it: a link whose target resolves by first
\* match to the source itself gives no connection, even when a later
\* notebook also matches the target by title.  So the pairs returned for a
\* source are, in order, those of its links whose first match is another
\* notebook.
C17_SelfExclusionAfterResolution ==
    BuildReturned =>
        \A i \in 1..Len(notebooks) :
            LET tgts == LinkTargets(notebooks[i])
                kept == SelectSeq([k \in 1..Len(tgts) |-> FirstMatch(tgts[k], notebooks)],
                                  LAMBDA j : j # 0 /\ j # i)
                from == SelectSeq(connections, LAMBDA c : c[1] = notebooks[i].shapeId)
            IN  from = [k \in 1..Len(kept) |->
                            <<notebooks[i].shapeId, notebooks[kept[k]].shapeId>>]

\* a link of a notebook resolves to the notebook itself while a later
\* notebook matches the same target by title, and no pair joins the two
C17_Witness ==
    /\ BuildReturned
    /\ \E i, j \in 1..Len(notebooks) :
        /\ i < j
        /\ \E tgt \in Range(LinkTargets(notebooks[i])) :
            /\ FirstMatch(tgt, notebooks) = i
            /\ EqualIgnoringCase(notebooks[j].title, tgt)
        /\ <<notebooks[i].shapeId, notebooks[j].shapeId>> \notin Range(connections)

----------------------------------------------------------------------------
(* resolveWikilink: C5 - C7, under SpecResolve *)

\* C5: whenever some candidate's notebookId equals the target exactly, the
\* result is the first such candidate in list order, even when an earlier
\* candidate has a title matching the target ignoring case.
C5_IdMatchWins ==
    ResolveReturned /\ IdMatches # {} => resolved = candidates[Min(IdMatches)]

\* an earlier candidate matches by title only, a later one by id
C5_Witness ==
    /\ ResolveReturned
    /\ IdMatches # {}
    /\ TitleMatches # {}
    /\ Min(TitleMatches) < Min(IdMatches)
    /\ resolved = candidates[Min(IdMatches)]

\* C6: when no candidate's notebookId equals the target, the result is the
\* first candidate in list order whose title equals the target ignoring
\* letter case.
C6_FirstTitleMatch ==
    ResolveReturned /\ IdMatches = {} /\ TitleMatches # {}
        => resolved = candidates[Min(TitleMatches)]

\* no id matches, two candidates match by title, the first of them in a
\* letter case other than the target's
C6_Witness ==
    /\ ResolveReturned
    /\ IdMatches = {}
    /\ Cardinality(TitleMatches) >= 2
    /\ candidates[Min(TitleMatches)].title # target
    /\ resolved = candidates[Min(TitleMatches)]

\* C7: the result is undefined exactly when no candidate has a notebookId
\* equal to the target and none has a title equal to it ignoring case (so
\* always for the empty list); otherwise it is one of the candidates.
C7_UndefinedIffNoMatch ==
    ResolveReturned =>
        /\ resolved = Undefined <=> (IdMatches = {} /\ TitleMatches = {})
        /\ resolved # Undefined => \E i \in 1..Len(candidates) : resolved = candidates[i]
        /\ candidates = <<>> => resolved = Undefined

\* a non-empty candidate list none of which matches
C7_Witness ==
    /\ ResolveReturned
    /\ candidates # <<>>
    /\ IdMatches = {}
    /\ TitleMatches = {}
    /\ resolved = Undefined

----------------------------------------------------------------------------
(* parseWikilinks: C8 - C10, under SpecParse *)

\* the text between the [[ and the ]] of a returned match
MatchContent(m) == Slice(text, m.start + 2, m.end - 2)

\* the offsets of text at which [[ stands
Openers == {i \in 0..(Len(text) - 2) : CharAt(text, i) = "[" /\ CharAt(text, i + 1) = "["}

\* ]] stands at offset k of text
CloserAt(k) == CharAt(text, k) = "]" /\ CharAt(text, k + 1) = "]"

\* at offset j stands [[x]] with x of n >= 1 characters, none of them in no
LinkAt(j, n, no) ==
    /\ j \in Openers
    /\ n >= 1
    /\ \A k \in 0..(n - 1) : CharAt(text, j + 2 + k) \notin (no \cup {""})
    /\ CloserAt(j + 2 + n)

\* ... x holding neither a bracket nor a |
BracketFreeLinkAt(j, n) == LinkAt(j, n, {"[", "]", "|"})

\* ... x holding neither a bracket nor a | nor white space
PlainLinkAt(j, n) == LinkAt(j, n, {"[", "]", "|", " ", "\t", "\n", "\r"})

\* the offset of the first | of a content that has one
FirstPipe(c) == Min({i \in 1..Len(c) : c[i] = "|"})

C9_SplitAtFirstPipeOnly ==
    ParseReturned =>
        \A k \in 1..Len(results) :
            LET c == MatchContent(results[k])
            IN  "|" \in Range(c) =>
                    /\ IsTrimOf(results[k].target, SubSeq(c, 1, FirstPipe(c) - 1))
                    /\ FirstPipe(c) < Len(c) =>
                        IsTrimOf(results[k].label, SubSeq(c, FirstPipe(c) + 1, Len(c)))

\* C10: a [[ after which no ]] follows starts no match, and a well-formed
\* [[x]] that stands after a [[ left open (no ]] between the two) is still
\* returned as its own match with target x.
C10_ScanContinuesPastOpenBrackets ==
    ParseReturned =>
        /\ \A i \in Openers :
            (\A k \in (i + 2)..Len(text) : ~CloserAt(k))
                => \A k \in 1..Len(results) : results[k].start # i
        /\ \A i, j \in Openers : \A n \in 1..Len(text) :
            (/\ i + 2 <= j
             /\ \A k \in (i + 2)..(j - 2) : ~CloserAt(k)
             /\ PlainLinkAt(j, n))
                => \E k \in 1..Len(results) :
                    /\ results[k].start = j
                    /\ results[k].end = j + n + 4
                    /\ results[k].target = Slice(text, j + 2, j + 2 + n)

\* C11: the matches are in left-to-right order and do not overlap: every
\* match has start < end, the text from start to end (exclusive) begins with
\* [[ and ends with ]], and each match ends at or before the start of the next.
C11_OrderedNonOverlapping ==
    ParseReturned =>
        \A k \in 1..Len(results) :
            /\ 0 <= results[k].start
            /\ results[k].start < results[k].end
            /\ results[k].end <= Len(text)
            /\ CharAt(text, results[k].start) = "["
            /\ CharAt(text, results[k].start + 1) = "["
            /\ CharAt(text, results[k].end - 2) = "]"
            /\ CharAt(text, results[k].end - 1) = "]"
            /\ k < Len(results) => results[k].end <= results[k + 1].start

\* two matches with text between them
C11_Witness ==
    /\ ParseReturned
    /\ Len(results) >= 2
    /\ results[1].end < results[2].start

----------------------------------------------------------------------------
(* The backlinks: C13, C14, C20, under SpecBacklinks *)

BacklinksReturned == called = "backlinks"

\* the shape ids of a list of notebooks, in order
ShapeIdsOf(nbs) == [i \in 1..Len(nbs) |-> nbs[i].shapeId]

\* C13: for the notebooks A (id a-id, text See [[B]] and [[c-id|Gamma]]),
\* B (id b-id, title B) and C (id c-id, title Gamma), B and C holding no
\* wikilink, buildConnectionMap returns exactly (A,B), (A,C) in that order,
\* the backlinks of B are [A], those of C are [A] and those of A are empty.
C13_EndToEndScenario ==
    IsScenario(notebooks) =>
        /\ called # "none" => ~threw /\ connections = <<(<<1, 2>>), (<<1, 3>>)>>
        /\ BacklinksReturned /\ selectedId = 2 => ShapeIdsOf(backlinks) = <<1>>
        /\ BacklinksReturned /\ selectedId = 3 => ShapeIdsOf(backlinks) = <<1>>
        /\ BacklinksReturned /\ selectedId = 1 => backlinks = <<>>

\* the backlinks of C have been computed for the three notebooks
C13_Witness ==
    /\ IsScenario(notebooks)
    /\ BacklinksReturned
    /\ selectedId = 3
    /\ backlinks # <<>>

\* C14: the backlinks of a selected notebook are exactly the notebooks s,
\* other than the selected one, for which buildConnectionMap over the same
\* list holds (s, selected); they come in the order of the list, each once.
C14_BacklinksAreConnectionSources ==
    BacklinksReturned /\ selectedId \in Range(ShapeIdsOf(notebooks)) =>
        backlinks = SelectSeq(notebooks,
                        LAMBDA s : /\ s.shapeId # selectedId
                                   /\ <<s.shapeId, selectedId>> \in Range(connections))

\* two notebooks link to the selected one, one of them twice
C14_Witness ==
    /\ BacklinksReturned
    /\ Len(backlinks) >= 2
    /\ \E i, j \in 1..Len(connections) :
        i # j /\ connections[i] = connections[j] /\ connections[i][2] = selectedId

\* C20: a stale identity is not found and nothing fails: when the selected id
\* is the id of no notebook of the list, the backlinks are empty.
\* The overlay draws a line for a connection only when both of its ends are
\* notebooks of the list.
C20_StaleSelectionGivesNoBacklinks ==
    /\ BacklinksReturned /\ selectedId \notin Range(ShapeIdsOf(notebooks)) =>
            backlinks = <<>>
    /\ called # "none" =>
            /\ ~threw
            /\ linesDrawn(notebooks) =
                    SelectSeq(connections,
                              LAMBDA c : /\ c[1] \in Range(ShapeIdsOf(notebooks))
                                         /\ c[2] \in Range(ShapeIdsOf(notebooks)))

\* the selected id is stale although a notebook of the list has links that
\* resolve
C20_Witness ==
    /\ BacklinksReturned
    /\ selectedId # Null
    /\ selectedId \notin Range(ShapeIdsOf(notebooks))
    /\ connections # <<>>
    /\ \E i \in 1..Len(notebooks) :
        \E tgt \in Range(LinkTargets(notebooks[i])) : Dangling(tgt, notebooks)

----------------------------------------------------------------------------
(* The sidebar polling the canvas: C15, C18, C19, under SpecSidebar *)

\* the ids of the notebook shapes of the page
LiveIds == {shapes[i].id : i \in 1..Len(shapes)}

\* C15: over any sequence of mounts, unmounts and editorRef changes a mounted
\* sidebar owns exactly one interval, the one its cleanup will clear; once
\* the sidebar is unmounted no interval is left, so no refresh has run since
\* and nothing is published.
C15_OneIntervalWhileMounted ==
    /\ mounted => intervals = {interval}
    /\ ~mounted =>
        /\ intervals = {}
        /\ called # "refresh"
        /\ notebooks = <<>>
        /\ selectedId = Null

\* the sidebar has been unmounted while notebooks are on the page
C15_Witness ==
    /\ ~mounted
    /\ called = "unmount"
    /\ shapes # <<>>

\* C18: a refresh with an editor present replaces the published list
\* wholesale: after any creations, edits and deletions the list it publishes
\* is the notebooks now on the page, in page order, with their current id,
\* title and markdown, so a deleted notebook is absent from it.
C18_RefreshPublishesLiveNotebooks ==
    called = "refresh" /\ editor =>
        /\ Len(notebooks) = Len(shapes)
        /\ \A i \in 1..Len(shapes) :
            /\ notebooks[i].shapeId = shapes[i].id
            /\ notebooks[i].notebookId = shapes[i].notebookId
            /\ notebooks[i].title = shapes[i].title
            /\ notebooks[i].markdown = shapes[i].markdown

\* a refresh after a notebook has been deleted and another one edited
C18_Witness ==
    /\ called = "refresh"
    /\ editor
    /\ Len(shapes) < created
    /\ \E i \in 1..Len(shapes) : shapes[i].markdown # DefaultMarkdown

\* C19: the list and the selected id of the sidebar come from the same
\* enumeration: the selected id is null or the shape id of a notebook of the
\* published list, and the backlinks shown are those of that id over that
\* list.
C19_SelectedIsListed ==
    /\ selectedId = Null \/ selectedId \in Range(ShapeIdsOf(notebooks))
    /\ backlinks =
        SelectSeq(notebooks,
            LAMBDA s :
                /\ s.shapeId # selectedId
                /\ \E tgt \in Range(LinkTargets(s)) :
                    /\ FirstMatch(tgt, notebooks) # 0
                    /\ notebooks[FirstMatch(tgt, notebooks)].shapeId = selectedId)

\* the selected notebook has a backlink and has since been deleted on the
\* canvas
C19_Witness ==
    /\ selectedId # Null
    /\ selectedId \notin LiveIds
    /\ backlinks # <<>>

\* the text holds [[id]]
HoldsLinkTo(md, id) ==
    \E j \in 1..(Len(md) - Len(id) - 3) :
        SubSeq(md, j, j + Len(id) + 3) = <<"[", "[">> \o id \o <<"]", "]">>

\* no two notebooks of the list share a notebookId
UniqueIds(nbs) == \A i, j \in 1..Len(nbs) : i # j => nbs[i].notebookId # nbs[j].notebookId

\* in the list, notebook s holds a link by id to another notebook t
LinkedById(nbs, s, t) ==
    /\ s # t
    /\ UniqueIds(nbs)
    /\ HoldsLinkTo(nbs[s].markdown, nbs[t].notebookId)

\* the observation gives the connection (s, t), and s among the backlinks
\* when t is the selected notebook
Yields(nbs, conns, sel, bls, s, t) ==
    /\ <<nbs[s].shapeId, nbs[t].shapeId>> \in conns
    /\ sel = nbs[t].shapeId => \E k \in 1..Len(bls) : bls[k].shapeId = nbs[s].shapeId

\* every link by id of the list the refresh publishes is observed
LinkByIdObserved(conns) ==
    \A s, t \in 1..Len(notebooks') :
        LinkedById(notebooks', s, t)
            => Yields(notebooks', conns, selectedId', backlinks', s, t)

\* a link by id observed in the list before is observed in the list the
\* refresh publishes when its source has the same text there and its target
\* is still there
LinkByIdKept(conns) ==
    \A s, t \in 1..Len(notebooks) : \A s2, t2 \in 1..Len(notebooks') :
        (/\ notebooks'[s2].shapeId = notebooks[s].shapeId
         /\ notebooks'[t2].shapeId = notebooks[t].shapeId
         /\ notebooks'[s2].markdown = notebooks[s].markdown
         /\ LinkedById(notebooks, s, t)
         /\ UniqueIds(notebooks'))
            => Yields(notebooks', conns, selectedId', backlinks', s2, t2)

----------------------------------------------------------------------------
(* The graph view: C16, under SpecGraph *)

\* the effect runs that may have anything live: the latest one while the view
\* is mounted
LiveRuns == IF graphMounted THEN {instance} ELSE {}

\* C16: when the graph view unmounts or its inputs change, the run of the
\* effect that ends is fully torn down: its simulation is stopped, its mouse
\* listeners are removed and no timer or callback it created, the delayed
\* first draw included, runs or draws afterwards; at most one simulation and
\* one pair of listeners is live at any time.
C16_TornDownRunIsDead ==
    /\ simulations \subseteq LiveRuns
    /\ listeners \subseteq LiveRuns
    /\ drawing # 0 => drawing \in LiveRuns

\* C23: selection and hover are visual-only: while the view stays mounted on
\* the same notebook list, a step that changes the selected id or the hovered
\* node neither stops nor re-creates the simulation (the same run of the
\* effect stays the live one, with the nodes and positions it has); the
\* simulation is re-created only on mount or when the node/edge set changes.
C23_SelectionAndHoverAreVisualOnly ==
    [][(graphMounted /\ graphMounted' /\ notebooks' = notebooks)
          => (instance' = instance /\ simulations' = simulations)]_vars

\* C24: the collision force gives each node a radius derived from its
\* outgoing-link count, the count that sizes its marker: two nodes of the
\* simulation whose markers differ in radius differ in collision radius.
C24_CollisionRadiusFromLinkCount ==
    \A j, k \in DOMAIN collide :
        markerRadius(graph.nodes[j]) # markerRadius(graph.nodes[k])
            => collide[j] # collide[k]

\* C25: a click calls onSelectNotebook exactly once, with the id of the node
\* getNodeAt found under the pointer, and leaves the node list, the links,
\* the hovered node and the simulation as they were; a click that hits no
\* node makes no call and changes nothing, the host's selection included.
C25_ClickOnlyCallsBack ==
    [][pointer'.event = "click" =>
          /\ callbacks' = IF pointer'.hit # Null THEN <<pointer'.hit>> ELSE <<>>
          /\ UNCHANGED <<graph, hovered, simulations, instance, collide, listeners,
                         timeouts, notebooks, selectedId>>
          /\ pointer'.hit = Null => UNCHANGED selection]_vars

\* a node was clicked while another one was hovered
C25_Witness ==
    /\ pointer.event = "click"
    /\ pointer.hit # Null
    /\ callbacks = <<pointer.hit>>
    /\ hovered # Null
    /\ hovered # pointer.hit

\* a click beside every node
C25_WitnessMiss == pointer.event = "click" /\ pointer.hit = Null /\ callbacks = <<>>

----------------------------------------------------------------------------
(* The connection overlay: C21, under SpecOverlay *)

\* the notebook of the list with a shape id
NotebookOf(id) == CHOOSE n \in Range(notebooks) : n.shapeId = id

\* C21: the overlay renders one line per connection that buildConnectionMap
\* returns for the notebook shapes as they are now, in the same order, from
\* the centre (x + w/2, y + h/2) of the source to the centre of the target,
\* whatever was rendered before; it renders nothing when there is no
\* connection.
C21_OneLinePerConnection ==
    called = "ConnectionLines" =>
        LET conns == buildConnectionMap(notebooks)
        IN  /\ overlay.svg <=> conns # <<>>
            /\ Len(overlay.lines) = Len(conns)
            /\ \A k \in 1..Len(conns) :
                /\ 2 * overlay.lines[k].x1
                    = 2 * NotebookOf(conns[k][1]).x + NotebookOf(conns[k][1]).w
                /\ 2 * overlay.lines[k].y1
                    = 2 * NotebookOf(conns[k][1]).y + NotebookOf(conns[k][1]).h
                /\ 2 * overlay.lines[k].x2
                    = 2 * NotebookOf(conns[k][2]).x + NotebookOf(conns[k][2]).w
                /\ 2 * overlay.lines[k].y2
                    = 2 * NotebookOf(conns[k][2]).y + NotebookOf(conns[k][2]).h

\* three lines are drawn, two of them for the same connection, between
\* shapes of different sizes
C21_Witness ==
    /\ called = "ConnectionLines"
    /\ Len(overlay.lines) = 3
    /\ overlay.lines[1] = overlay.lines[2]
    /\ \E i, j \in 1..Len(notebooks) : notebooks[i].w # notebooks[j].w

\* the overlay renders nothing after the target of its last connection is
\* deleted
C21_WitnessNothing ==
    /\ called = "ConnectionLines"
    /\ ~overlay.svg
    /\ Len(notebooks) = 1
    /\ notebooks[1].markdown # <<>>

----------------------------------------------------------------------------
(* The graph data: C22, under SpecGraphData *)

\* the (source, target) pairs of the graph view's links, in order
LinkPairs == [k \in 1..Len(graph.links) |-> <<graph.links[k].source, graph.links[k].target>>]

\* C22: for every notebook list the (source, target) pairs of the graph
\* view's links are, in order, the pairs buildConnectionMap returns for the
\* same list, and both ends of every link are ids of graph nodes.
C22_LinksMirrorConnections ==
    called = "GraphView" =>
        /\ LinkPairs = buildConnectionMap(notebooks)
        /\ \A k \in 1..Len(graph.links) :
            /\ \E n \in 1..Len(graph.nodes) : graph.nodes[n].id = graph.links[k].source
            /\ \E n \in 1..Len(graph.nodes) : graph.nodes[n].id = graph.links[k].target

\* a list with a link to another notebook, pushed, and a link of a notebook
\* to itself, left out
C22_Witness ==
    /\ called = "GraphView"
    /\ graph.links # <<>>
    /\ \E i \in 1..Len(notebooks) :
        \E k \in 1..Len(linkOutcomes(notebooks[i], infoListOf(notebooks))) :
            LET out == linkOutcomes(notebooks[i], infoListOf(notebooks))[k]
            IN  out.resolved # Undefined /\ out.outcome = "skip"

----------------------------------------------------------------------------
(* The canvas: C26, C27, under SpecCanvas *)

\* the lines of a text, in order
RECURSIVE Lines(_)
Lines(md) ==
    IF \A k \in 1..Len(md) : md[k] # "\n" THEN <<md>>
    ELSE LET n == Min({k \in 1..Len(md) : md[k] = "\n"})
         IN  <<SubSeq(md, 1, n - 1)>> \o Lines(SubSeq(md, n + 1, Len(md)))

\* a line that is a heading: a #, a space, the text of the heading
IsHeading(line) == Len(line) >= 2 /\ line[1] = "#" /\ line[2] = " "

\* the title a text asks for: the text of its first heading, 'Untitled'
\* without one
HeadingTitle(md) ==
    LET hs == SelectSeq(Lines(md), IsHeading)
    IN  IF hs = <<>> THEN DefaultTitle
        ELSE CHOOSE t \in {SubSeq(hs[1], a, b) : a \in 3..(Len(hs[1]) + 1), b \in 2..Len(hs[1])} :
                IsTrimOf(t, SubSeq(hs[1], 3, Len(hs[1])))

\* C26: a step that edits a notebook's markdown changes only its markdown and
\* its title, the title being the text of the first `# ` heading of the new
\* markdown or 'Untitled' when it has none; the notebookId and the shape id
\* of every notebook that stays on the canvas are left as they were.
C26_EditsKeepIdentity ==
    [][\A i \in 1..Len(shapes) : \A j \in 1..Len(shapes') :
          shapes[i].id = shapes'[j].id =>
              /\ shapes'[j].notebookId = shapes[i].notebookId
              /\ shapes'[j].markdown # shapes[i].markdown
                    => shapes'[j].title = HeadingTitle(shapes'[j].markdown)]_vars

\* C27: the notebooks on the canvas have notebookIds that are not empty and
\* differ from one another, however they were created.
C27_NotebookIdsDistinct ==
    \A i, j \in 1..Len(shapes) :
        /\ shapes[i].notebookId # <<>>
        /\ i # j => shapes[i].notebookId # shapes[j].notebookId

----------------------------------------------------------------------------
(* The autocomplete: C29, under SpecComplete *)

\* C29: the text an autocomplete option inserts round-trips: parseWikilinks
\* finds exactly one link in it, whose target is the notebookId of the
\* offered notebook and whose label is its title, and resolveWikilink of that
\* target over the notebooks of the board returns the offered notebook.
C29_CompletionRoundTrips ==
    /\ (offered # NoOption /\ called \in {"parseWikilinks", "resolveWikilink"}) =>
            /\ Len(results) = 1
            /\ results[1].target = offered.option.detail
            /\ results[1].label = offered.option.label
    /\ (offered # NoOption /\ called = "resolveWikilink") =>
            /\ resolved # Undefined
            /\ resolved.shapeId = offered.shapeId

----------------------------------------------------------------------------
(* The markdown renderer: C30, under SpecRender *)

\* C30: the wikilink rule of the renderer and parseWikilinks recognise the
\* same links: for every text the anchors of the rendered html have, in
\* order, the targets and the labels of the matches of parseWikilinks.
C30_RendererAgreesWithParser ==
    (anchors.rendered /\ called = "parseWikilinks") =>
        /\ Len(anchors.links) = Len(results)
        /\ \A k \in 1..Len(results) :
            /\ anchors.links[k].target = results[k].target
            /\ anchors.links[k].label = results[k].label

============================================================================
